---- MODULE Spec2Model ----
(***************************************************************************)
(* Model of the i2clcd driver (HD44780 LCD behind a PCF8574 I2C expander,  *)
(* 4-bit mode).  The driver's handlers are operators that compute, from a  *)
(* display handle and their arguments, the sequence of transport and delay *)
(* calls they make; one action per public function applies a handler to a  *)
(* handle and records what it did.                                         *)
(***************************************************************************)
EXTENDS Integers, Sequences, FiniteSets, TLC

VARIABLES
    lcd,      \* the i2clcd structs: handle -> [lcd_address, backlight, cursor, blink]
    inited,   \* handle -> whether lcd_init has been called on it
    op,       \* the last public call: [name, h, args]
    trace,    \* the transport/delay calls made by the last public call, in order
    data,     \* the array argument of the last call, as the call left it
    ret,      \* the value returned by the last call (0 for void functions)
    arg,      \* a byte the caller holds, fixed at construction
    keep,     \* how many calls the program under observation makes (0: any number, unrecorded)
    calls,    \* the calls made since construction, when keep > 0
    pc        \* where the program is: "caller" between calls, else the function it never leaves

vars == <<lcd, inited, op, trace, data, ret, arg, keep, calls, pc>>

----------------------------------------------------------------------------
(* Bit positions of the control signals and the I2C direction bit.         *)

RS == 0
RW == 1
EN == 2
BL == 3

I2C_WRITE == 0
I2C_READ == 1

(* Bounds of the model.                                                    *)
MaxText == 2      \* longest of the short texts passed to lcd_print
MaxLen == 3       \* largest len passed to lcd_read_ddram
MaxCalls == 3     \* number of calls recorded in SpecSeq

Handles == {"lcd1", "lcd2"}
LcdAddress == [lcd1 |-> 78, lcd2 |-> 76]      \* LCD_ADDRESS1 0x4E, LCD_ADDRESS2 0x4C
Byte == 0..255
Flags == 0..2                     \* values passed for bl
Styles == {<<1, 0>>, <<2, 3>>}    \* values passed for cr, bn
Rows == 0..3
Pattern == <<0, 10, 31, 31, 14, 4, 0, 255>>
Unwritten == -1                   \* a field or cell nobody has stored to yet

(* What the caller passes in Spec: one value of each byte argument (all    *)
(* 256 are passed in SpecByte), texts spelled with 'A' and 'B', and a      *)
(* device that answers reads with bytes on both sides of bit 7.            *)
SomeBytes == {165}                \* 0xA5
SomeCols == {19}
SomeIndexes == {11}
SomeAddresses == {64}
Texts ==
    {[k \in 1..n |-> 65 + ((k + s) % 2)] : n \in 0..MaxText, s \in 0..1}
Answer(n) == [k \in 1..n |-> 64 + k + 128 * (k % 2)]     \* 193, 66, 195, ...
Flag7 == {66, 193}

----------------------------------------------------------------------------
(* C integer arithmetic.  Operands are promoted to 16-bit int; a value     *)
(* passed or stored as uint8_t is reduced modulo 256.                      *)

U8(x) == x % 256

(* p & q for two nibbles.                                                  *)
And4 ==
    [p \in 0..15 |-> [q \in 0..15 |->
        (p % 2) * (q % 2)
        + 2 * (((p \div 2) % 2) * ((q \div 2) % 2))
        + 4 * (((p \div 4) % 2) * ((q \div 4) % 2))
        + 8 * ((p \div 8) * (q \div 8))]]

(* a & b and a | b on non-negative ints, a nibble at a time from the low   *)
(* end.                                                                    *)
RECURSIVE BitAnd(_, _)
BitAnd(a, b) ==
    IF a = 0 \/ b = 0 THEN 0
    ELSE And4[a % 16][b % 16] + 16 * BitAnd(a \div 16, b \div 16)

BitOr(a, b) == a + b - BitAnd(a, b)

Shl(a, n) == (a * (2 ^ n)) % (2 ^ 16)

----------------------------------------------------------------------------
(* Calls into the I2C master library and the delay routines.               *)

i2c_init == [ev |-> "i2c_init", arg |-> 0]
i2c_start_wait(a) == [ev |-> "i2c_start_wait", arg |-> U8(a)]
i2c_write(b) == [ev |-> "i2c_write", arg |-> U8(b)]
i2c_readAck(v) == [ev |-> "i2c_readAck", arg |-> v]
i2c_readNak(v) == [ev |-> "i2c_readNak", arg |-> v]
i2c_stop == [ev |-> "i2c_stop", arg |-> 0]
delay_us(n) == [ev |-> "_delay_us", arg |-> n]
delay_ms(n) == [ev |-> "_delay_ms", arg |-> n]

(* (x) | (rs << RS) | (rw << RW) | (en << EN) | (backlight << BL)           *)
Ctrl(x, rs, rw, en, l) ==
    BitOr(BitOr(BitOr(BitOr(x, Shl(rs, RS)), Shl(rw, RW)), Shl(en, EN)),
          Shl(l.backlight, BL))

----------------------------------------------------------------------------
(* The handlers.  `l` is the struct the handle points to; each handler     *)
(* yields the calls it makes, in order.                                    *)

(* lcd_write_cmnd sending the low nibble first.                            *)
lcd_write_cmnd_low_first(l, d) ==
    << i2c_start_wait(l.lcd_address + I2C_WRITE),
       i2c_write(Ctrl(Shl(BitAnd(d, 15), 4), 0, 0, 0, l)),
       i2c_write(Ctrl(Shl(BitAnd(d, 15), 4), 0, 0, 1, l)),
       delay_us(1),
       i2c_write(Ctrl(Shl(BitAnd(d, 15), 4), 0, 0, 0, l)),
       i2c_stop,
       delay_ms(2),
       i2c_start_wait(l.lcd_address + I2C_WRITE),
       i2c_write(Ctrl(BitAnd(d, 240), 0, 0, 0, l)),
       i2c_write(Ctrl(BitAnd(d, 240), 0, 0, 1, l)),
       delay_us(1),
       i2c_write(Ctrl(BitAnd(d, 240), 0, 0, 0, l)),
       i2c_stop,
       delay_ms(2) >>

lcd_write_cmnd(l, d) ==
    << i2c_start_wait(l.lcd_address + I2C_WRITE),
       i2c_write(Ctrl(BitAnd(d, 240), 0, 0, 0, l)),
       i2c_write(Ctrl(BitAnd(d, 240), 0, 0, 1, l)),
       delay_us(1),
       i2c_write(Ctrl(BitAnd(d, 240), 0, 0, 0, l)),
       i2c_stop,
       delay_ms(2),
       i2c_start_wait(l.lcd_address + I2C_WRITE),
       i2c_write(Ctrl(Shl(BitAnd(d, 15), 4), 0, 0, 0, l)),
       i2c_write(Ctrl(Shl(BitAnd(d, 15), 4), 0, 0, 1, l)),
       delay_us(1),
       i2c_write(Ctrl(Shl(BitAnd(d, 15), 4), 0, 0, 0, l)),
       i2c_stop,
       delay_ms(2) >>

(* lcd_write_data keeping the bus between the two nibbles: no stop and no  *)
(* settle delay after the first.                                           *)
lcd_write_data_one_transfer(l, d) ==
    << i2c_start_wait(l.lcd_address + I2C_WRITE),
       i2c_write(Ctrl(BitAnd(d, 240), 1, 0, 0, l)),
       i2c_write(Ctrl(BitAnd(d, 240), 1, 0, 1, l)),
       delay_us(1),
       i2c_write(Ctrl(BitAnd(d, 240), 1, 0, 0, l)),
       i2c_write(Ctrl(Shl(BitAnd(d, 15), 4), 1, 0, 0, l)),
       i2c_write(Ctrl(Shl(BitAnd(d, 15), 4), 1, 0, 1, l)),
       delay_us(1),
       i2c_write(Ctrl(Shl(BitAnd(d, 15), 4), 1, 0, 0, l)),
       i2c_stop,
       delay_ms(2) >>

lcd_write_data(l, d) ==
    << i2c_start_wait(l.lcd_address + I2C_WRITE),
       i2c_write(Ctrl(BitAnd(d, 240), 1, 0, 0, l)),
       i2c_write(Ctrl(BitAnd(d, 240), 1, 0, 1, l)),
       delay_us(1),
       i2c_write(Ctrl(BitAnd(d, 240), 1, 0, 0, l)),
       i2c_stop,
       delay_ms(2),
       i2c_start_wait(l.lcd_address + I2C_WRITE),
       i2c_write(Ctrl(Shl(BitAnd(d, 15), 4), 1, 0, 0, l)),
       i2c_write(Ctrl(Shl(BitAnd(d, 15), 4), 1, 0, 1, l)),
       delay_us(1),
       i2c_write(Ctrl(Shl(BitAnd(d, 15), 4), 1, 0, 0, l)),
       i2c_stop,
       delay_ms(2) >>

(* lcd_is_busy returning the low bit of the byte read.                     *)
lcd_is_busy_bit_0(l, rx) ==
    [ events |->
        << i2c_start_wait(l.lcd_address + I2C_WRITE),
           i2c_write(Ctrl(0, 0, 1, 0, l)),
           i2c_write(Ctrl(0, 0, 1, 1, l)),
           i2c_start_wait(l.lcd_address + I2C_READ),
           i2c_readNak(rx),
           i2c_start_wait(l.lcd_address + I2C_WRITE),
           i2c_write(Ctrl(0, 0, 0, 0, l)) >>,
      ret |-> U8(BitAnd(rx, Shl(1, 0))) ]

(* rx is the byte the device answers the read with.                        *)
lcd_is_busy(l, rx) ==
    [ events |->
        << i2c_start_wait(l.lcd_address + I2C_WRITE),
           i2c_write(Ctrl(0, 0, 1, 0, l)),
           i2c_write(Ctrl(0, 0, 1, 1, l)),
           i2c_start_wait(l.lcd_address + I2C_READ),
           i2c_readNak(rx),
           i2c_start_wait(l.lcd_address + I2C_WRITE),
           i2c_write(Ctrl(0, 0, 0, 0, l)) >>,
      ret |-> U8(BitAnd(rx, Shl(1, 7))) ]

(* for (i = 0; i < len - 1; i++) data[i] = i2c_readAck();                  *)
(* st is [i, data, events]; buf cells are numbered from 1, so data[i] is   *)
(* cell i + 1.  rx[k] is what the device answers the k-th read with.  The  *)
(* comparison is made on int, so len = 0 gives i < -1 and no iteration.    *)
(* The loop reading every byte with i2c_readNak.                           *)
RECURSIVE ReadLoop_all_nak(_, _, _)
ReadLoop_all_nak(st, len, rx) ==
    IF st.i < len - 1
    THEN ReadLoop_all_nak([ i |-> U8(st.i + 1),
                            data |-> [st.data EXCEPT ![st.i + 1] = rx[st.i + 1]],
                            events |-> Append(st.events, i2c_readNak(rx[st.i + 1])) ],
                          len, rx)
    ELSE st

RECURSIVE ReadLoop(_, _, _)
ReadLoop(st, len, rx) ==
    IF st.i < len - 1
    THEN ReadLoop([ i |-> U8(st.i + 1),
                    data |-> [st.data EXCEPT ![st.i + 1] = rx[st.i + 1]],
                    events |-> Append(st.events, i2c_readAck(rx[st.i + 1])) ],
                  len, rx)
    ELSE st

(* Number of reads lcd_read_ddram makes for a given len.                   *)
NumReads(len) == IF len - 1 > 0 THEN len ELSE 1

lcd_read_ddram(l, buf, address, len, cursordir, rx) ==
    LET dir == BitAnd(cursordir, 1)
        head == lcd_write_cmnd(l, BitOr(Shl(1, 4), Shl(dir, 2)))
                \o lcd_write_cmnd(l, address)
                \o << i2c_start_wait(l.lcd_address + I2C_WRITE),
                      i2c_write(Ctrl(0, 1, 1, 0, l)),
                      i2c_write(Ctrl(0, 1, 1, 1, l)),
                      i2c_start_wait(l.lcd_address + I2C_READ) >>
        loop == ReadLoop([i |-> 0, data |-> buf, events |-> <<>>], len, rx)
        last == rx[loop.i + 1]
    IN  [ events |-> head \o loop.events
                     \o << i2c_readNak(last),
                           i2c_start_wait(l.lcd_address + I2C_WRITE),
                           i2c_write(Ctrl(0, 1, 1, 0, l)) >>,
          data |-> [loop.data EXCEPT ![loop.i + 1] = last] ]

(* for (uint8_t i = 0; i < 8; i++) lcd_write_data(lcd, data[i]);            *)
RECURSIVE StoreLoop(_, _, _)
StoreLoop(l, pat, i) ==
    IF i < 8 THEN lcd_write_data(l, pat[i + 1]) \o StoreLoop(l, pat, U8(i + 1))
    ELSE <<>>

(* lcd_store_char without the reduction of the index modulo 8.            *)
lcd_store_char_no_wrap(l, pat, address) ==
    LET char_addr == U8(64 + (address * 8))
    IN  lcd_write_cmnd(l, char_addr) \o StoreLoop(l, pat, 0)

lcd_store_char(l, pat, address) ==
    LET a == address % 8
        char_addr == U8(64 + (a * 8))
    IN  lcd_write_cmnd(l, char_addr) \o StoreLoop(l, pat, 0)

lcd_print_char(l, address) ==
    LET a == address % 8
    IN  lcd_write_data(l, a)

(* lcd_init sending the function set before the switch to 4-bit mode.     *)
lcd_init_function_set_first(l, address, bl) ==
    LET l2 == [l EXCEPT !.lcd_address = U8(address), !.backlight = BitAnd(U8(bl), 1)]
    IN  [ lcd |-> l2,
          events |-> <<i2c_init>> \o lcd_write_cmnd(l2, 40)
                     \o lcd_write_cmnd(l2, 2) \o lcd_write_cmnd(l2, 12) ]

lcd_init(l, address, bl) ==
    LET l2 == [l EXCEPT !.lcd_address = U8(address), !.backlight = BitAnd(U8(bl), 1)]
    IN  [ lcd |-> l2,
          events |-> <<i2c_init>> \o lcd_write_cmnd(l2, 2)
                     \o lcd_write_cmnd(l2, 40) \o lcd_write_cmnd(l2, 12) ]

(* lcd_cursor storing its arguments as they are.                           *)
lcd_cursor_stores_arguments(l, cr, bn) ==
    [ lcd |-> [l EXCEPT !.cursor = U8(cr), !.blink = U8(bn)],
      events |-> <<>> ]

lcd_cursor(l, cr, bn) ==
    [ lcd |-> [l EXCEPT !.cursor = BitAnd(U8(cr), 1), !.blink = BitAnd(U8(bn), 1)],
      events |-> <<>> ]

(* lcd_off sending the command without storing the new backlight.         *)
lcd_off_keeps_backlight(l, bl) ==
    [ lcd |-> l, events |-> lcd_write_cmnd(l, 8) ]

(* lcd_off sending the command before it stores the new backlight.        *)
lcd_off_command_first(l, bl) ==
    LET l2 == [l EXCEPT !.backlight = BitAnd(U8(bl), 1)]
    IN  [ lcd |-> l2, events |-> lcd_write_cmnd(l, 8) ]

lcd_off(l, bl) ==
    LET l2 == [l EXCEPT !.backlight = BitAnd(U8(bl), 1)]
    IN  [ lcd |-> l2, events |-> lcd_write_cmnd(l2, 8) ]

lcd_clear(l) == lcd_write_cmnd(l, 1)

(* The row addresses without the bit of the "set DDRAM address" command.   *)
lines_without_command_bit == <<0, 64, 20, 84>>

(* The row addresses of a 16-column display.                               *)
lines_16_columns == <<128, 192, 144, 208>>

lines == <<128, 192, 148, 212>>      \* {0x80, 0xC0, 0x94, 0xD4}

lcd_setcursor(l, row, col) == lcd_write_cmnd(l, U8(lines[row + 1] + col))

(* while (data[i++] != '\0') len++;  with uint8_t i and len.  txt is the    *)
(* memory at data[0], data[1], ... up to and including the terminator.     *)
(* The k-th test of the loop (k = 0, 1, ...) reads data[(i + k) mod 256]:  *)
(* the loop ends at the first k for which that cell holds the terminator,  *)
(* with len incremented k times.                                           *)
AtTerminator(txt, i, k) == U8(i + k) < Len(txt) /\ txt[U8(i + k) + 1] = 0

(* When none of the 256 cells the index can reach holds the terminator,    *)
(* the test after the 256th finds i and len back at the values they began  *)
(* with and reads the same cells again: the loop goes round forever.       *)
Forever == -1

(* The scan counting the terminator as well.                               *)
ScanLen_counts_terminator(txt, i, len) ==
    IF \E k \in 0..255 : AtTerminator(txt, i, k)
    THEN LET n == CHOOSE k \in 0..255 :
                      /\ AtTerminator(txt, i, k)
                      /\ \A j \in 0..(k - 1) : ~AtTerminator(txt, i, j)
         IN  U8(len + n + 1)
    ELSE Forever

ScanLen(txt, i, len) ==
    IF \E k \in 0..255 : AtTerminator(txt, i, k)
    THEN LET n == CHOOSE k \in 0..255 :
                      /\ AtTerminator(txt, i, k)
                      /\ \A j \in 0..(k - 1) : ~AtTerminator(txt, i, j)
         IN  U8(len + n)
    ELSE Forever

(* for (i = 0; i < len; i++) lcd_write_data(lcd, data[i]);                  *)
(* The calls of the iterations i .. len - 1: those of the first half of    *)
(* the iterations followed by those of the second half.                    *)
RECURSIVE PrintLoop(_, _, _, _)
PrintLoop(l, txt, i, len) ==
    IF i >= len THEN <<>>
    ELSE IF i + 1 = len THEN lcd_write_data(l, txt[i + 1])
    ELSE LET mid == (i + len) \div 2
         IN  PrintLoop(l, txt, i, mid) \o PrintLoop(l, txt, mid, len)

(* returns is whether the function returns; events are the calls it has   *)
(* made when it does, or on its way into the loop it never leaves.         *)
lcd_print(l, txt) ==
    LET len == ScanLen(txt, 0, 0)
    IN  IF len = Forever
        THEN [ events |-> <<>>, returns |-> FALSE ]
        ELSE [ events |-> PrintLoop(l, txt, 0, len), returns |-> TRUE ]

----------------------------------------------------------------------------
(* The caller.  Structs are declared without an initialiser, so no field   *)
(* holds a value until a function stores one; lcd_init is called on a      *)
(* handle before anything but lcd_cursor is, so no function reads a field  *)
(* that was never stored to.                                               *)

NoCall == [name |-> "none", h |-> "none", args |-> <<>>]

Fresh ==
    [lcd_address |-> Unwritten, backlight |-> Unwritten,
     cursor |-> Unwritten, blink |-> Unwritten]

InitWith(b, n) ==
    /\ lcd = [h \in Handles |-> Fresh]
    /\ inited = [h \in Handles |-> FALSE]
    /\ op = NoCall
    /\ trace = <<>>
    /\ data = <<>>
    /\ ret = 0
    /\ arg = b
    /\ keep = n
    /\ calls = <<>>
    /\ pc = "caller"

Init == \E b \in SomeBytes : InitWith(b, 0)

Terminated(t) == Append(t, 0)

(* The memory the caller passes lcd_read_ddram: nothing stored yet.        *)
Buffer == [k \in 1..(MaxLen + 1) |-> Unwritten]

(* The call made on a struct that every handle shares.                     *)
Returned_shared_struct(h, name, args, l2, events, d, r) ==
    /\ lcd' = [x \in Handles |-> l2]
    /\ op' = [name |-> name, h |-> h, args |-> args]
    /\ trace' = events
    /\ data' = d
    /\ ret' = r
    /\ pc = "caller"
    /\ keep > 0 => Len(calls) < keep
    /\ calls' = IF keep > 0
                THEN Append(calls, [name |-> name, h |-> h, args |-> args,
                                    events |-> events])
                ELSE calls
    /\ UNCHANGED <<arg, keep, pc>>

(* What a call leaves behind: the struct, and the record of the call.      *)
Returned(h, name, args, l2, events, d, r) ==
    /\ lcd' = [lcd EXCEPT ![h] = l2]
    /\ op' = [name |-> name, h |-> h, args |-> args]
    /\ trace' = events
    /\ data' = d
    /\ ret' = r
    /\ pc = "caller"
    /\ keep > 0 => Len(calls) < keep
    /\ calls' = IF keep > 0
                THEN Append(calls, [name |-> name, h |-> h, args |-> args,
                                    events |-> events])
                ELSE calls
    /\ UNCHANGED <<arg, keep, pc>>

(* A call that does not return: the program stays inside the function.    *)
Stuck(h, name, args, events, d) ==
    /\ pc = "caller"
    /\ pc' = name
    /\ op' = [name |-> name, h |-> h, args |-> args]
    /\ trace' = events
    /\ data' = d
    /\ UNCHANGED <<lcd, ret, arg, keep, calls>>

Call_lcd_init(h, address, bl) ==
    /\ inited' = [inited EXCEPT ![h] = TRUE]
    /\ LET r == lcd_init(lcd[h], address, bl)
       IN  Returned(h, "lcd_init", <<address, bl>>, r.lcd, r.events, <<>>, 0)

Call_lcd_cursor(h, cr, bn) ==
    /\ UNCHANGED inited
    /\ LET r == lcd_cursor(lcd[h], cr, bn)
       IN  Returned(h, "lcd_cursor", <<cr, bn>>, r.lcd, r.events, <<>>, 0)

Call_lcd_off(h, bl) ==
    /\ inited[h]
    /\ UNCHANGED inited
    /\ LET r == lcd_off(lcd[h], bl)
       IN  Returned(h, "lcd_off", <<bl>>, r.lcd, r.events, <<>>, 0)

Call_lcd_clear(h) ==
    /\ inited[h]
    /\ UNCHANGED inited
    /\ Returned(h, "lcd_clear", <<>>, lcd[h], lcd_clear(lcd[h]), <<>>, 0)

Call_lcd_setcursor(h, row, col) ==
    /\ inited[h]
    /\ UNCHANGED inited
    /\ Returned(h, "lcd_setcursor", <<row, col>>, lcd[h],
                lcd_setcursor(lcd[h], row, col), <<>>, 0)

Call_lcd_print(h, txt) ==
    /\ inited[h]
    /\ UNCHANGED inited
    /\ LET r == lcd_print(lcd[h], txt)
       IN  IF r.returns
           THEN Returned(h, "lcd_print", <<>>, lcd[h], r.events, txt, 0)
           ELSE Stuck(h, "lcd_print", <<>>, r.events, txt)

Call_lcd_store_char(h, pat, address) ==
    /\ inited[h]
    /\ UNCHANGED inited
    /\ Returned(h, "lcd_store_char", <<address>>, lcd[h],
                lcd_store_char(lcd[h], pat, address), pat, 0)

Call_lcd_print_char(h, address) ==
    /\ inited[h]
    /\ UNCHANGED inited
    /\ Returned(h, "lcd_print_char", <<address>>, lcd[h],
                lcd_print_char(lcd[h], address), <<>>, 0)

Call_lcd_read_ddram(h, address, len, cursordir, rx) ==
    /\ inited[h]
    /\ UNCHANGED inited
    /\ LET r == lcd_read_ddram(lcd[h], Buffer, address, len, cursordir, rx)
       IN  Returned(h, "lcd_read_ddram", <<address, len, cursordir>>, lcd[h],
                    r.events, r.data, 0)

Call_lcd_is_busy(h, rx) ==
    /\ inited[h]
    /\ UNCHANGED inited
    /\ LET r == lcd_is_busy(lcd[h], rx)
       IN  Returned(h, "lcd_is_busy", <<>>, lcd[h], r.events, <<>>, r.ret)

Call_lcd_write_cmnd(h, d) ==
    /\ inited[h]
    /\ UNCHANGED inited
    /\ Returned(h, "lcd_write_cmnd", <<d>>, lcd[h], lcd_write_cmnd(lcd[h], d), <<>>, 0)

Call_lcd_write_data(h, d) ==
    /\ inited[h]
    /\ UNCHANGED inited
    /\ Returned(h, "lcd_write_data", <<d>>, lcd[h], lcd_write_data(lcd[h], d), <<>>, 0)

(* A public call on display h with arguments the caller takes from the    *)
(* given sets.                                                             *)
Call(h, flags, styles, rows, texts, lens) ==
    \/ \E bl \in flags : Call_lcd_init(h, LcdAddress[h], bl)
    \/ \E st \in styles : Call_lcd_cursor(h, st[1], st[2])
    \/ \E bl \in flags : Call_lcd_off(h, bl)
    \/ Call_lcd_clear(h)
    \/ \E row \in rows, col \in SomeCols : Call_lcd_setcursor(h, row, col)
    \/ \E t \in texts : Call_lcd_print(h, Terminated(t))
    \/ \E i \in SomeIndexes : Call_lcd_store_char(h, Pattern, i)
    \/ \E i \in SomeIndexes : Call_lcd_print_char(h, i)
    \/ \E a \in SomeAddresses, len \in lens, dir \in flags :
          Call_lcd_read_ddram(h, a, len, dir, Answer(NumReads(len)))
    \/ \E rx \in Flag7 : Call_lcd_is_busy(h, rx)
    \/ Call_lcd_write_cmnd(h, arg)
    \/ Call_lcd_write_data(h, arg)

(* Any sequence of public calls on the two displays.                       *)
Next == \E h \in Handles : Call(h, Flags, Styles, Rows, Texts, 0..MaxLen)

Spec == Init /\ [][Next]_vars

(* One display, every value of the byte argument: the caller holds a byte  *)
(* from the start and passes it wherever a function takes one.             *)
InitByte == \E b \in Byte : InitWith(b, 0)

NextByte ==
    \E h \in {"lcd1"} :
        \/ \E a \in Handles, bl \in 0..1 : Call_lcd_init(h, LcdAddress[a], bl)
        \/ Call_lcd_write_cmnd(h, arg)
        \/ Call_lcd_write_data(h, arg)
        \/ \E row \in Rows : Call_lcd_setcursor(h, row, arg)
        \/ Call_lcd_store_char(h, Pattern, arg)
        \/ Call_lcd_print_char(h, arg)

SpecByte == InitByte /\ [][NextByte]_vars

(* A program that makes MaxCalls calls on one display, each recorded with  *)
(* the transport and delay calls it made.                                  *)
InitSeq == \E b \in SomeBytes : InitWith(b, MaxCalls)

NextSeq ==
    \E h \in {"lcd1"} : Call(h, 0..1, Styles, {1}, {<<>>, <<65, 66>>}, {MaxLen})

SpecSeq == InitSeq /\ [][NextSeq]_vars

(* Two displays and texts around the range of lcd_print's 8-bit counters.  *)
LongLengths == {255, 256, 257}
LongTexts == {[k \in 1..n |-> 65 + (k % 2)] : n \in LongLengths}

NextPrint ==
    \E h \in Handles :
        \/ \E bl \in 0..1 : Call_lcd_init(h, LcdAddress[h], bl)
        \/ Call_lcd_clear(h)
        \/ \E t \in Texts \cup LongTexts : Call_lcd_print(h, Terminated(t))

SpecPrint == Init /\ [][NextPrint]_vars

(* One display, every value of the byte the device answers lcd_is_busy     *)
(* with and of the address and the direction passed to lcd_read_ddram.     *)
NextRead ==
    \E h \in {"lcd1"} :
        \/ \E bl \in 0..1 : Call_lcd_init(h, LcdAddress[h], bl)
        \/ Call_lcd_is_busy(h, arg)
        \/ \E len \in {0, MaxLen}, dir \in 0..1 :
              Call_lcd_read_ddram(h, arg, len, dir, Answer(NumReads(len)))
        \/ \E a \in SomeAddresses :
              Call_lcd_read_ddram(h, a, MaxLen, arg, Answer(NumReads(MaxLen)))

SpecRead == InitByte /\ [][NextRead]_vars

----------------------------------------------------------------------------
(* Reading a recorded trace.                                               *)

BitOf(x, i) == (x \div (2 ^ i)) % 2

IsWriteEv(e) == e.ev = "i2c_write"
IsStartEv(e) == e.ev = "i2c_start_wait"
IsReadEv(e) == e.ev \in {"i2c_readAck", "i2c_readNak"}
IsBusEv(e) == e.ev # "i2c_init"

Writes(t) == SelectSeq(t, IsWriteEv)
Starts(t) == SelectSeq(t, IsStartEv)
Reads(t) == SelectSeq(t, IsReadEv)

(* Events k .. k+6 of t are one nibble transfer to the device at address a: *)
(* start for write, byte with EN = 0, the same byte with EN = 1, a         *)
(* microsecond delay, the same byte with EN = 0, stop, a millisecond delay. *)
IsNibbleTransfer(t, k, a) ==
    /\ k + 6 <= Len(t)
    /\ t[k] = [ev |-> "i2c_start_wait", arg |-> a + I2C_WRITE]
    /\ t[k + 1].ev = "i2c_write" /\ BitOf(t[k + 1].arg, EN) = 0
    /\ t[k + 2] = [ev |-> "i2c_write", arg |-> t[k + 1].arg + 2 ^ EN]
    /\ t[k + 3].ev = "_delay_us" /\ t[k + 3].arg >= 1
    /\ t[k + 4] = t[k + 1]
    /\ t[k + 5].ev = "i2c_stop"
    /\ t[k + 6].ev = "_delay_ms" /\ t[k + 6].arg >= 2

(* Events k .. k+13 of t are one command (rs = 0) or data (rs = 1) write:   *)
(* two nibble transfers with RW = 0 and the same RS.                       *)
IsByteWrite(t, k, a) ==
    /\ IsNibbleTransfer(t, k, a)
    /\ IsNibbleTransfer(t, k + 7, a)
    /\ BitOf(t[k + 1].arg, RW) = 0
    /\ BitOf(t[k + 8].arg, RW) = 0
    /\ BitOf(t[k + 1].arg, RS) = BitOf(t[k + 8].arg, RS)

Unframed == <<[rs |-> -1, payload |-> -1]>>

(* The command and data writes a trace consists of, high nibble first; or  *)
(* Unframed if the trace is anything but a succession of such writes.      *)
ByteWrites(t, a) ==
    IF /\ Len(t) % 14 = 0
       /\ \A j \in 0..((Len(t) \div 14) - 1) : IsByteWrite(t, 14 * j + 1, a)
    THEN [j \in 1..(Len(t) \div 14) |->
            [rs |-> BitOf(t[14 * (j - 1) + 2].arg, RS),
             payload |-> 16 * (t[14 * (j - 1) + 2].arg \div 16)
                         + (t[14 * (j - 1) + 9].arg \div 16)]]
    ELSE Unframed

(* The DDRAM address of the first column of rows 0 .. 3.                   *)
RowBase == <<128, 192, 148, 212>>

Cmd(p) == [rs |-> 0, payload |-> p]
Dat(p) == [rs |-> 1, payload |-> p]

LastWas(names) == op.name \in names
Address == lcd[op.h].lcd_address
Backlight == lcd[op.h].backlight

----------------------------------------------------------------------------
(* C1: a command write (RS = 0) and a data write (RS = 1) of a byte d send *)
(* six bytes: the first three carry the high nibble of d in bits 4-7, the  *)
(* last three the low nibble of d; in all six bit 0 is RS, bit 1 (RW) is 0 *)
(* and bit 3 is the handle's backlight.                                    *)
C1_NibbleOrder ==
    LastWas({"lcd_write_cmnd", "lcd_write_data"}) =>
        LET d == op.args[1]
            w == Writes(trace)
            rs == IF op.name = "lcd_write_data" THEN 1 ELSE 0
        IN  /\ Len(w) = 6
            /\ \A k \in 1..3 : w[k].arg \div 16 = d \div 16
            /\ \A k \in 4..6 : w[k].arg \div 16 = d % 16
            /\ \A k \in 1..6 :
                  /\ BitOf(w[k].arg, RS) = rs
                  /\ BitOf(w[k].arg, RW) = 0
                  /\ BitOf(w[k].arg, BL) = Backlight

C1_Witness ==
    /\ op = [name |-> "lcd_write_data", h |-> "lcd1", args |-> <<165>>]
    /\ Backlight = 1
    /\ Writes(trace)[1].arg = 169
    /\ Writes(trace)[6].arg = 89

(* C2: each nibble transfer of a command or data write is exactly: start   *)
(* to the handle's address for write, write with EN = 0, write of the same *)
(* byte with EN = 1, microsecond delay, write of the same byte with        *)
(* EN = 0, stop, millisecond delay; the second transfer starts right after *)
(* the stop and the millisecond delay of the first, and nothing follows.   *)
C2_NibbleSequence ==
    LastWas({"lcd_write_cmnd", "lcd_write_data"}) =>
        /\ Len(trace) = 14
        /\ IsNibbleTransfer(trace, 1, Address)
        /\ IsNibbleTransfer(trace, 8, Address)

C2_Witness ==
    /\ op = [name |-> "lcd_write_cmnd", h |-> "lcd1", args |-> <<90>>]
    /\ Address = 76
    /\ trace[8] = [ev |-> "i2c_start_wait", arg |-> 76]
    /\ trace[10] = [ev |-> "i2c_write", arg |-> 164]

(* C3: after lcd_init, every byte a public call writes to the expander has *)
(* bit 3 equal to the handle's backlight flag, the same in all the writes  *)
(* of the call (lcd_is_busy, lcd_read_ddram and lcd_off included).         *)
C3_BacklightInEveryByte ==
    ~LastWas({"none", "lcd_cursor"}) =>
        \A k \in 1..Len(Writes(trace)) : BitOf(Writes(trace)[k].arg, BL) = Backlight

C3_Witness ==
    /\ LastWas({"lcd_read_ddram"})
    /\ Backlight = 1
    /\ Len(Writes(trace)) = 15
    /\ \E h \in Handles : inited[h] /\ lcd[h].backlight = 0

(* C4: lcd_init followed immediately by lcd_clear issues the commands      *)
(* 0x02, 0x28, the display control command 0x0C (possibly with cursor and  *)
(* blink bits), then 0x01: four command writes of two nibbles each, RS = 0, *)
(* and no other command or data write.                                     *)
C4_InitThenClear ==
    \A k \in 1..(Len(calls) - 1) :
        (calls[k].name = "lcd_init" /\ calls[k + 1].name = "lcd_clear") =>
            LET w == ByteWrites(SelectSeq(calls[k].events, IsBusEv)
                                \o calls[k + 1].events,
                                lcd[calls[k].h].lcd_address)
            IN  /\ Len(w) = 4
                /\ w[1] = Cmd(2)
                /\ w[2] = Cmd(40)
                /\ w[3] \in {Cmd(12 + b) : b \in 0..3}
                /\ w[4] = Cmd(1)

C4_Witness ==
    /\ Len(calls) = 3
    /\ calls[1].name = "lcd_cursor"
    /\ calls[2].name = "lcd_init"
    /\ calls[3].name = "lcd_clear"
    /\ Len(calls[2].events) = 43
    /\ Len(calls[3].events) = 14

(* C5: the third command of lcd_init is 0x0C with bit 1 equal to the       *)
(* handle's cursor field and bit 0 equal to its blink field, for every     *)
(* style set with lcd_cursor before lcd_init.                              *)
C5_InitAppliesCursorStyle ==
    (LastWas({"lcd_init"}) /\ lcd[op.h].cursor # Unwritten) =>
        LET w == ByteWrites(SelectSeq(trace, IsBusEv), Address)
        IN  /\ Len(w) = 3
            /\ w[3] = Cmd(12 + 2 * lcd[op.h].cursor + lcd[op.h].blink)

(* C6 as stated: lcd_setcursor issues one command write whose payload is   *)
(* {0x80, 0xC0, 0x94, 0xD4}[row] + col, for every row in 0..3 and every    *)
(* column value.                                                           *)
C6_AsStated ==
    LastWas({"lcd_setcursor"}) =>
        ByteWrites(trace, Address) = <<Cmd(RowBase[op.args[1] + 1] + op.args[2])>>

(* C6 as amended: lcd_setcursor issues exactly one command write, whose    *)
(* payload is {0x80, 0xC0, 0x94, 0xD4}[row] + col reduced modulo 256 (the  *)
(* sum itself whenever it fits a byte), and nothing else.                  *)
C6_SetCursorPayload ==
    LastWas({"lcd_setcursor"}) =>
        ByteWrites(trace, Address)
            = <<Cmd((RowBase[op.args[1] + 1] + op.args[2]) % 256)>>

C6_Witness ==
    /\ op = [name |-> "lcd_setcursor", h |-> "lcd1", args |-> <<3, 200>>]
    /\ ByteWrites(trace, Address) = <<Cmd(156)>>

C8_ReadOrder ==
    (LastWas({"lcd_read_ddram"}) /\ op.args[2] >= 1) =>
        LET len == op.args[2]
            r == Reads(trace)
        IN  /\ Len(r) = len
            /\ \A k \in 1..(len - 1) : r[k].ev = "i2c_readAck"
            /\ r[len].ev = "i2c_readNak"
            /\ \A k \in 1..len : data[k] = r[k].arg
            /\ \E p \in 1..Len(trace) :
                  /\ trace[p] = [ev |-> "i2c_start_wait", arg |-> Address + I2C_READ]
                  /\ \A k \in 1..len : trace[p + k] = r[k]

C8_Witness ==
    /\ LastWas({"lcd_read_ddram"})
    /\ op.args[2] = 3
    /\ data[1] = 193 /\ data[2] = 66 /\ data[3] = 195
    /\ Reads(trace)[3] = [ev |-> "i2c_readNak", arg |-> 195]

(* C9: for every index i in 0..255, lcd_store_char at index i makes the    *)
(* same calls as at index i mod 8: the command 0x40 + (i mod 8) * 8 and    *)
(* then the 8 pattern bytes as data writes in order; lcd_print_char at     *)
(* index i makes the same calls as at i mod 8: one data write of i mod 8.  *)
C9_GlyphIndexWraps ==
    /\ LastWas({"lcd_store_char"}) =>
          /\ trace = lcd_store_char(lcd[op.h], data, op.args[1] % 8)
          /\ ByteWrites(trace, Address)
                = <<Cmd(64 + (op.args[1] % 8) * 8)>> \o [k \in 1..8 |-> Dat(data[k])]
    /\ LastWas({"lcd_print_char"}) =>
          /\ trace = lcd_print_char(lcd[op.h], op.args[1] % 8)
          /\ ByteWrites(trace, Address) = <<Dat(op.args[1] % 8)>>

C9_Witness ==
    /\ op = [name |-> "lcd_store_char", h |-> "lcd1", args |-> <<203>>]
    /\ ByteWrites(trace, Address)[1] = Cmd(88)
    /\ ByteWrites(trace, Address)[9] = Dat(255)

(* C10: a call on one handle leaves every field of the other handle        *)
(* unchanged, and every bus start it makes is addressed to its own         *)
(* handle's address plus the direction bit, never to the other handle's.   *)
C10_HandlesIndependent ==
    [][ /\ \A h \in Handles \ {op'.h} : lcd'[h] = lcd[h]
        /\ \A k \in 1..Len(Starts(trace')) :
              /\ Starts(trace')[k].arg
                    \in {lcd'[op'.h].lcd_address + I2C_WRITE,
                         lcd'[op'.h].lcd_address + I2C_READ}
              /\ \A h \in Handles \ {op'.h} :
                    Starts(trace')[k].arg
                        \notin {lcd'[h].lcd_address + I2C_WRITE,
                                lcd'[h].lcd_address + I2C_READ} ]_vars

C10_Witness ==
    /\ op.h = "lcd2"
    /\ LastWas({"lcd_read_ddram"})
    /\ inited["lcd1"]
    /\ lcd["lcd1"] = [lcd_address |-> 78, backlight |-> 1, cursor |-> 1, blink |-> 0]
    /\ lcd["lcd2"] = [lcd_address |-> 76, backlight |-> 0, cursor |-> 0, blink |-> 1]
    /\ Starts(trace)[6] = [ev |-> "i2c_start_wait", arg |-> 77]

(* C11: lcd_off(bl) makes exactly one command write, of 0x08, and no other *)
(* transport call; it leaves the handle's backlight equal to bl (a flag:   *)
(* its low bit is what is stored); and every byte written by lcd_off and   *)
(* by the calls after it, up to the next call that stores the flag         *)
(* (lcd_off or lcd_init), has bit 3 equal to that value.                   *)
C11_DisplayPower ==
    \A k \in 1..Len(calls) :
        calls[k].name = "lcd_off" =>
            LET bl == calls[k].args[1] % 2
                StoresFlag(m) == calls[m].name \in {"lcd_off", "lcd_init"}
            IN  /\ ByteWrites(calls[k].events, lcd[calls[k].h].lcd_address)
                      = <<Cmd(8)>>
                /\ k = Len(calls) => lcd[calls[k].h].backlight = bl
                /\ \A j \in k..Len(calls) :
                      (\A m \in (k + 1)..j : ~StoresFlag(m)) =>
                          \A n \in 1..Len(Writes(calls[j].events)) :
                              BitOf(Writes(calls[j].events)[n].arg, BL) = bl

C11_Witness ==
    /\ Len(calls) = 3
    /\ calls[1].name = "lcd_init" /\ calls[1].args[2] = 0
    /\ calls[2].name = "lcd_off" /\ calls[2].args = <<1>>
    /\ calls[3].name = "lcd_print"
    /\ Len(Writes(calls[3].events)) = 12
    /\ Writes(calls[3].events)[1].arg = 73
    /\ lcd["lcd1"].backlight = 1

(* C12: lcd_cursor makes no transport and no delay call; it sets the       *)
(* handle's cursor field to the low bit of cr and its blink field to the   *)
(* low bit of bn, and leaves the handle's address and backlight (and the   *)
(* other handle) as they were.                                             *)
C12_CursorStyleOnly ==
    [][ op'.name = "lcd_cursor" =>
          /\ trace' = <<>>
          /\ lcd'[op'.h].cursor = op'.args[1] % 2
          /\ lcd'[op'.h].blink = op'.args[2] % 2
          /\ lcd'[op'.h].lcd_address = lcd[op'.h].lcd_address
          /\ lcd'[op'.h].backlight = lcd[op'.h].backlight
          /\ \A h \in Handles \ {op'.h} : lcd'[h] = lcd[h] ]_vars

C12_Witness ==
    /\ op = [name |-> "lcd_cursor", h |-> "lcd1", args |-> <<2, 3>>]
    /\ inited["lcd1"]
    /\ lcd["lcd1"] = [lcd_address |-> 78, backlight |-> 1, cursor |-> 0, blink |-> 1]
    /\ trace = <<>>

(* C13: lcd_is_busy makes, in this order and nothing else: a start for     *)
(* write, a write with RS = 0, RW = 1, EN = 0, a write with RS = 0,         *)
(* RW = 1, EN = 1, a start for read, one non-acknowledged read, a start    *)
(* for write, a write with RW = 0 and EN = 0; it returns a non-zero value  *)
(* exactly when bit 7 of the byte read is 1; it changes no handle field.   *)
C13_BusyQuery ==
    [][ op'.name = "lcd_is_busy" =>
          LET a == lcd[op'.h].lcd_address
              Lines(k) == <<BitOf(trace'[k].arg, RS), BitOf(trace'[k].arg, RW),
                            BitOf(trace'[k].arg, EN)>>
          IN  /\ Len(trace') = 7
              /\ trace'[1] = [ev |-> "i2c_start_wait", arg |-> a + I2C_WRITE]
              /\ trace'[2].ev = "i2c_write" /\ Lines(2) = <<0, 1, 0>>
              /\ trace'[3].ev = "i2c_write" /\ Lines(3) = <<0, 1, 1>>
              /\ trace'[4] = [ev |-> "i2c_start_wait", arg |-> a + I2C_READ]
              /\ trace'[5].ev = "i2c_readNak"
              /\ trace'[6] = [ev |-> "i2c_start_wait", arg |-> a + I2C_WRITE]
              /\ trace'[7].ev = "i2c_write"
              /\ BitOf(trace'[7].arg, RW) = 0 /\ BitOf(trace'[7].arg, EN) = 0
              /\ (ret' # 0) <=> (BitOf(trace'[5].arg, 7) = 1)
              /\ lcd' = lcd ]_vars

C13_Witness ==
    /\ op = [name |-> "lcd_is_busy", h |-> "lcd1", args |-> <<>>]
    /\ trace[5] = [ev |-> "i2c_readNak", arg |-> 193]
    /\ ret = 128
    /\ Backlight = 1
    /\ trace[7] = [ev |-> "i2c_write", arg |-> 8]

(* C14: after its last read lcd_read_ddram addresses the device for write  *)
(* again, and the last byte it writes to the expander has RW = 0 and       *)
(* EN = 0: the read/write line is deasserted when lcd_read_ddram returns.  *)
C14_ReadReleasesRW ==
    LastWas({"lcd_read_ddram"}) =>
        LET n == Len(trace)
        IN  /\ n >= 3
            /\ IsReadEv(trace[n - 2])
            /\ trace[n - 1] = [ev |-> "i2c_start_wait", arg |-> Address + I2C_WRITE]
            /\ trace[n].ev = "i2c_write"
            /\ BitOf(trace[n].arg, RW) = 0
            /\ BitOf(trace[n].arg, EN) = 0

(* The command and data writes among the first n events of a trace.        *)
FirstWrites(t, n, a) ==
    IF Len(t) >= n THEN ByteWrites(SubSeq(t, 1, n), a) ELSE Unframed

(* C15: for every address passed to lcd_read_ddram, the second command it  *)
(* issues is a command write whose payload has bit 7 set and whose low 7   *)
(* bits are the address: the "set DDRAM address" command for that address. *)
C15_ReadSetsDdramAddress ==
    LastWas({"lcd_read_ddram"}) =>
        LET w == FirstWrites(trace, 28, Address)
        IN  /\ Len(w) = 2
            /\ w[2].rs = 0
            /\ BitOf(w[2].payload, 7) = 1
            /\ w[2].payload % 128 = op.args[1] % 128

(* C16: the first command lcd_read_ddram issues is the cursor shift with   *)
(* the direction "Left if 0 else Right": 0x10 when cursordir is 0, and     *)
(* 0x14 for every cursordir in 1..255.                                     *)
C16_ReadDirection ==
    LastWas({"lcd_read_ddram"}) =>
        LET w == FirstWrites(trace, 14, Address)
        IN  w = <<Cmd(IF op.args[3] = 0 THEN 16 ELSE 20)>>

(* C17: in the calls a public function makes, every i2c_start_wait is      *)
(* followed by an i2c_stop before the function returns, lcd_is_busy and    *)
(* lcd_read_ddram included: no function returns with the bus held.         *)
C17_EveryStartStopped ==
    \A k \in 1..Len(trace) :
        IsStartEv(trace[k]) =>
            \E j \in (k + 1)..Len(trace) : trace[j].ev = "i2c_stop"

(* C18: lcd_read_ddram makes exactly len reads and stores only to the      *)
(* cells 0 .. len - 1 of the caller's buffer, for every len, len = 0       *)
(* included: then it makes no read and stores nothing.                     *)
C18_ReadStaysInBuffer ==
    LastWas({"lcd_read_ddram"}) =>
        LET len == op.args[2]
        IN  /\ Len(Reads(trace)) = len
            /\ \A k \in 1..Len(data) : k > len => data[k] = Unwritten

(* C19: lcd_print returns for every null-terminated text, whatever its     *)
(* length, texts of 255, 256 and more bytes included, and the number of    *)
(* data writes it has made is the length of the text.                      *)
C19_PrintTerminates ==
    LastWas({"lcd_print"}) =>
        /\ pc = "caller"
        /\ Len(ByteWrites(trace, Address)) = Len(data) - 1
        /\ \A k \in 1..(Len(data) - 1) : ByteWrites(trace, Address)[k] = Dat(data[k])

(* C20: for every row in 0..3 and every col in 0..255 the command          *)
(* lcd_setcursor issues, computed in 8-bit arithmetic, has bit 7 set: it   *)
(* is a "set DDRAM address" command and never another command (clear       *)
(* 0x01, a CGRAM address 0x40..0x7F) reached by overflow of the sum.       *)
C20_SetCursorKeepsBit7 ==
    LastWas({"lcd_setcursor"}) =>
        LET w == ByteWrites(trace, Address)
        IN  /\ Len(w) = 1
            /\ w[1].rs = 0
            /\ BitOf(w[1].payload, 7) = 1

(* C20 as amended: lcd_setcursor issues one command whose payload is the   *)
(* sum {0x80, 0xC0, 0x94, 0xD4}[row] + col reduced modulo 256.  Bit 7 of   *)
(* the payload is set whenever the sum fits a byte; when it does not, the  *)
(* payload is the sum minus 256, which has bit 7 set only from 384 on and  *)
(* is otherwise another command (0x00 for row 3, col 44).                  *)
C20_SetCursorBit7 ==
    LastWas({"lcd_setcursor"}) =>
        LET w == ByteWrites(trace, Address)
            sum == RowBase[op.args[1] + 1] + op.args[2]
        IN  /\ Len(w) = 1
            /\ w[1].rs = 0
            /\ sum <= 255 => BitOf(w[1].payload, 7) = 1
            /\ sum > 255 => w[1].payload = sum - 256
            /\ sum > 255 => (BitOf(w[1].payload, 7) = 1 <=> sum >= 384)

C20_Witness ==
    /\ op = [name |-> "lcd_setcursor", h |-> "lcd1", args |-> <<0, 129>>]
    /\ ByteWrites(trace, Address) = <<Cmd(1)>>

====
